---- MODULE Spec2Model ----
(***************************************************************************)
(* speedstumps: branch-free SIMD evaluation of decision stumps             *)
(* (src/vectest.cc) and of depth-2 decision trees (src/vectest2.cc),       *)
(* each measured against a branching scalar baseline.                      *)
(*                                                                         *)
(* Numbers.  A float or double is modelled by the integer n that stands    *)
(* for n * 2^-30 in vectest2.cc and for n itself in vectest.cc: every      *)
(* value used has an exact binary representation.  A float keeps 24        *)
(* significant bits, so each float addition is rounded by RoundF (round    *)
(* to nearest, ties to even).  A double keeps 53 bits; every double sum    *)
(* formed here stays below 2^31 and is therefore exact.  NaN is one        *)
(* reserved integer outside every numeric domain.                          *)
(***************************************************************************)
EXTENDS Integers, Sequences, FiniteSets

VARIABLES
  pc,        \* position of the running program / harness
  forest,    \* std::vector<tree *> forest          (vectest2.cc:65)
  forest2,   \* std::vector<tree2> forest2          (vectest2.cc:109)
  x,         \* std::vector<float> x, the predictors (vectest2.cc:208)
  t,         \* index of the repacking loop          (vectest2.cc:215)
  i,         \* index of the pair loops              (vectest2.cc:164, 174)
  trial,     \* trial counter of the timer lambda    (vectest2.cc:231)
  val,       \* last value returned to the timer     (vectest2.cc:233)
  out,       \* lines written to std::cout
  total,     \* double total of rf_eval / rf_eval_simd
  mask,      \* __m256i mask of the last tree_eval_simd call
  rScalar,   \* value returned by rf_eval
  rSimd,     \* value returned by rf_eval_simd
  nodeID,    \* size_t nodeID of tree_eval           (vectest2.cc:70)
  ncmp,      \* number of threshold comparisons tree_eval has made
  path,      \* nodes tree_eval has visited, in order
  ret,       \* value returned by tree_eval (0 until it returns)
  a, b, xs, ys, count,   \* arguments of the stump kernels (vectest.cc:56)
  rSlow, rF, rF2         \* values returned by selectslow, selectf, selectf2

mainVars  == <<t, trial, val, out>>
kernVars  == <<i, total, mask, rScalar, rSimd>>
treeVars  == <<nodeID, ncmp, path, ret>>
stumpVars == <<a, b, xs, ys, count, rSlow, rF, rF2>>
vars == <<pc, forest, forest2, x, mainVars, kernVars, treeVars, stumpVars>>

None == "none"

----------------------------------------------------------------------------
(* IEEE-754 single precision on exactly representable values *)

NaN == -1073741824

IsNaN(v) == v = NaN

Abs(n) == IF n < 0 THEN -n ELSE n

\* 2^24: a float holds 24 significant bits
TwoP24 == 16777216

\* spacing of the floats around magnitude m
RECURSIVE Ulp(_)
Ulp(m) == IF m < TwoP24 THEN 1 ELSE 2 * Ulp(m \div 2)

\* nearest float to the exact value n, ties to even
RoundF(n) ==
  LET m  == Abs(n)
      s  == Ulp(m)
      q  == m \div s
      r  == m % s
      up == (2 * r > s) \/ (2 * r = s /\ q % 2 = 1)
      mag == (IF up THEN q + 1 ELSE q) * s
  IN IF n < 0 THEN -mag ELSE mag

\* float + float (addps / addss / haddps lane)
FAdd(p, q) == RoundF(p + q)

\* 2^25 and 2^26: a quotient scaled into [2^25, 2^26) carries two extra bits
TwoP25 == 33554432
TwoP26 == 67108864

\* a float m * 2^e written with m odd (or <<0, 0>>), so that equal floats are
\* equal pairs
RECURSIVE Normalize(_, _)
Normalize(m, e) ==
  IF m = 0 THEN <<0, 0>>
  ELSE IF m % 2 = 0 THEN Normalize(m \div 2, e + 1) ELSE <<m, e>>

\* num * 2^e = p with num in [c * 2^25, c * 2^26): p is a float, so the halving
\* is exact
RECURSIVE Scale(_, _, _)
Scale(num, c, e) ==
  IF num < c * (TwoP25 \div 256) THEN Scale(256 * num, c, e - 8)
  ELSE IF num < c * TwoP25 THEN Scale(2 * num, c, e - 1)
  ELSE IF num >= c * TwoP26 THEN Scale(num \div 2, c, e + 1)
  ELSE <<num, e>>

\* float / (float) size_t: the quotient p / c rounded to 24 significant bits
\* (nearest, ties to even), as the pair <<m, e>> standing for m * 2^e
FDiv(p, c) ==
  IF p = 0 THEN <<0, 0>>
  ELSE
    LET sc  == Scale(Abs(p), c, 0)
        q   == sc[1] \div c
        rem == sc[1] % c
        m   == q \div 4
        low == q % 4
        up  == low = 3 \/ (low = 2 /\ (rem > 0 \/ m % 2 = 1))
        r   == Normalize(IF up THEN m + 1 ELSE m, sc[2] + 2)
    IN IF p < 0 THEN <<-r[1], r[2]>> ELSE r

\* operator <= of C++ on floating point: false when either side is NaN
CLe(p, q) == ~IsNaN(p) /\ ~IsNaN(q) /\ p <= q

\* <= that is true on unordered operands (an unordered predicate)
CmpLeUQ(p, q) == IsNaN(p) \/ IsNaN(q) \/ p <= q

\* _mm256_cmp_ps predicate 18 = _CMP_LE_OQ: ordered, less-or-equal
CmpLeOQ(p, q) == ~IsNaN(p) /\ ~IsNaN(q) /\ p <= q

\* _mm256_cmp_ps predicate 30 = _CMP_GT_OQ: ordered, greater-than
CmpGtOQ(p, q) == ~IsNaN(p) /\ ~IsNaN(q) /\ p > q

Lanes8 == 0 .. 7

\* _mm256_set_ps(e7, ..., e0): the FIRST argument lands in the HIGHEST lane
SetPs(e7, e6, e5, e4, e3, e2, e1, e0) ==
  [l \in Lanes8 |-> <<e0, e1, e2, e3, e4, e5, e6, e7>>[l + 1]]

\* the reduction without the extracted high half
HorizontalAdd_LowOnly(v) == FAdd(FAdd(v[0], v[1]), FAdd(v[2], v[3]))

\* float horizontal_add(__m256 &a): two _mm256_hadd_ps, then lane 0 of the
\* low half plus lane 0 of the high half
HorizontalAdd(v) ==
  FAdd(FAdd(FAdd(v[0], v[1]), FAdd(v[2], v[3])),
       FAdd(FAdd(v[4], v[5]), FAdd(v[6], v[7])))

\* _mm256_cmp_ps(v1, v2, 18), one boolean per lane
CmpPs18(v1, v2) == [l \in Lanes8 |-> CmpLeOQ(v1[l], v2[l])]

\* _mm256_and_si256 on two comparison results
AndSi256(m1, m2) == [l \in Lanes8 |-> m1[l] /\ m2[l]]

\* _mm256_setzero_ps()
SetZero == [l \in Lanes8 |-> 0]

\* _mm256_maskstore_ps(dst, m, src): lanes of src whose mask is set overwrite dst
MaskStore(dst, m, src) == [l \in Lanes8 |-> IF m[l] THEN src[l] ELSE dst[l]]

----------------------------------------------------------------------------
(* vectest2.cc: the scalar tree model *)

\* struct node
Node(l, r, v, s) ==
  [leftChildNodeID |-> l, rightChildNodeID |-> r, splitVarID |-> v, splitValue |-> s]

\* t_[k] and x_[k]: C++ indexes from 0
At(seq, k) == seq[k + 1]

\* "Break if terminal node"
IsTerminal(tn) == tn.leftChildNodeID = 0 /\ tn.rightChildNodeID = 0

\* the move with < in place of <=
Child_Strict(tn, x_) ==
  IF ~IsNaN(At(x_, tn.splitVarID)) /\ At(x_, tn.splitVarID) < tn.splitValue
    THEN tn.leftChildNodeID
    ELSE tn.rightChildNodeID

\* the move whose else branch goes back to node 0
Child_ElseRoot(tn, x_) ==
  IF CLe(At(x_, tn.splitVarID), tn.splitValue)
    THEN tn.leftChildNodeID
    ELSE 0

\* "Move to child"
Child(tn, x_) ==
  IF CLe(At(x_, tn.splitVarID), tn.splitValue)
    THEN tn.leftChildNodeID
    ELSE tn.rightChildNodeID

RECURSIVE Walk(_, _, _)
Walk(t_, x_, id) ==
  IF IsTerminal(At(t_, id)) THEN id ELSE Walk(t_, x_, Child(At(t_, id), x_))

\* double tree_eval(const tree &t_, const std::vector<float> &x_)
TreeEval(t_, x_) == At(t_, Walk(t_, x_, 0)).splitValue

\* double / size_t in rf_eval and rf_eval_simd.  The quotient is kept as the
\* exact fraction <<numerator, denominator>>: with 53 bits a double tells apart
\* the quotients of any two different totals below 2^31 by the same size.
DDiv(tot, n) == <<tot, n>>

RECURSIVE SumTrees(_, _, _)
SumTrees(f_, x_, k) ==
  IF k = 0 THEN 0 ELSE SumTrees(f_, x_, k - 1) + TreeEval(f_[k], x_)

\* double rf_eval(const std::vector<tree *> &f_, const std::vector<float> &x_)
RfEval(f_, x_) == DDiv(SumTrees(f_, x_, Len(f_)), Len(f_))

----------------------------------------------------------------------------
(* vectest2.cc: the packed record and the vector kernel *)

\* struct tree2 filled as main does
Tree2(n0, n1, n2, n3, n4, n5, n6) ==
  [a_splitVarID |-> n0.splitVarID, c_splitVarID |-> n1.splitVarID,
   e_splitVarID |-> n2.splitVarID,
   b_splitValue |-> n0.splitValue, d_splitValue |-> n1.splitValue,
   f_splitValue |-> n2.splitValue,
   one |-> n3.splitValue, two |-> n4.splitValue,
   three |-> n5.splitValue, four |-> n6.splitValue]

\* what the out-of-range reads treep[k] of one loop body may yield:
\* std::vector::operator[] does not check, the read is undefined behaviour
GarbageVals == {0, 777}
GarbageNodes == {Node(0, 0, 0, g) : g \in GarbageVals}

\* treep[k]: the node, or the garbage g when k is out of range
ReadNode(treep, k, g) == IF k < Len(treep) THEN At(treep, k) ELSE g

\* the body of main's repacking loop for one tree: the record tt it pushes, or a
\* crash of the process when a read leaves the vector
PackOutcomes(treep) ==
  {[crashed |-> FALSE,
    tt |-> Tree2(ReadNode(treep, 0, g), ReadNode(treep, 1, g), ReadNode(treep, 2, g),
                 ReadNode(treep, 3, g), ReadNode(treep, 4, g), ReadNode(treep, 5, g),
                 ReadNode(treep, 6, g))] : g \in GarbageNodes}
  \cup (IF Len(treep) < 7
          THEN {[crashed |-> TRUE,
                 tt |-> Tree2(Node(0, 0, 0, 0), Node(0, 0, 0, 0), Node(0, 0, 0, 0),
                              Node(0, 0, 0, 0), Node(0, 0, 0, 0), Node(0, 0, 0, 0),
                              Node(0, 0, 0, 0))]}
          ELSE {})

\* first cmp1 / cmp2: the root decision in both orders  (aabb <= bbaa)
RootCmp1(t1_, t2_, x_) ==
  SetPs(At(x_, t1_.a_splitVarID), At(x_, t1_.a_splitVarID),
        t1_.b_splitValue, t1_.b_splitValue,
        At(x_, t2_.a_splitVarID), At(x_, t2_.a_splitVarID),
        t2_.b_splitValue, t2_.b_splitValue)

RootCmp2(t1_, t2_, x_) ==
  SetPs(t1_.b_splitValue, t1_.b_splitValue,
        At(x_, t1_.a_splitVarID), At(x_, t1_.a_splitVarID),
        t2_.b_splitValue, t2_.b_splitValue,
        At(x_, t2_.a_splitVarID), At(x_, t2_.a_splitVarID))

Cmpres1(t1_, t2_, x_) == CmpPs18(RootCmp1(t1_, t2_, x_), RootCmp2(t1_, t2_, x_))

\* second cmp1 / cmp2: the second-level decisions in both orders (cdef <= dcfe)
LevelCmp1(t1_, t2_, x_) ==
  SetPs(At(x_, t1_.c_splitVarID), t1_.d_splitValue,
        At(x_, t1_.e_splitVarID), t1_.f_splitValue,
        At(x_, t2_.c_splitVarID), t2_.d_splitValue,
        At(x_, t2_.e_splitVarID), t2_.f_splitValue)

LevelCmp2(t1_, t2_, x_) ==
  SetPs(t1_.d_splitValue, At(x_, t1_.c_splitVarID),
        t1_.f_splitValue, At(x_, t1_.e_splitVarID),
        t2_.d_splitValue, At(x_, t2_.c_splitVarID),
        t2_.f_splitValue, At(x_, t2_.e_splitVarID))

Cmpres2(t1_, t2_, x_) == CmpPs18(LevelCmp1(t1_, t2_, x_), LevelCmp2(t1_, t2_, x_))

\* __m256i mask
SimdMask(t1_, t2_, x_) == AndSi256(Cmpres1(t1_, t2_, x_), Cmpres2(t1_, t2_, x_))

\* __m256 res1
\* res1 with the leaves three and four of each tree exchanged
Res1_Swapped34(t1_, t2_) ==
  SetPs(t1_.one, t1_.two, t1_.four, t1_.three,
        t2_.one, t2_.two, t2_.four, t2_.three)

Res1(t1_, t2_) ==
  SetPs(t1_.one, t1_.two, t1_.three, t1_.four,
        t2_.one, t2_.two, t2_.three, t2_.four)

\* __m256 res2 after the masked store
Res2(t1_, t2_, x_) == MaskStore(SetZero, SimdMask(t1_, t2_, x_), Res1(t1_, t2_))

\* double tree_eval_simd(const tree2 &t1_, const tree2 &t2_, const std::vector<float> &x_)
TreeEvalSimd(t1_, t2_, x_) == HorizontalAdd(Res2(t1_, t2_, x_))

RECURSIVE SumPairs(_, _, _)
SumPairs(f_, x_, k) ==
  IF k = 0 THEN 0
  ELSE SumPairs(f_, x_, k - 1) + TreeEvalSimd(f_[2 * k - 1], f_[2 * k], x_)

\* double rf_eval_simd(const std::vector<tree2> &f_, const std::vector<float> &x_)
RfEvalSimd(f_, x_) == DDiv(SumPairs(f_, x_, Len(f_) \div 2), Len(f_))

\* double eps = 0.0000001, in units of 2^-30: 1e-7 * 2^30 = 107.37..., so for a
\* whole number d of units  fabs(d) > eps  is  |d| > 107
EpsUnits == 107

\* the comparison without fabs
Diverges_NoFabs(v1_f1, v2_f1, vtot_f2) == (v1_f1 + v2_f1) - vtot_f2 > EpsUnits

\* fabs((v1_f1 + v2_f1) - vtot_f2) > eps
Diverges(v1_f1, v2_f1, vtot_f2) == Abs((v1_f1 + v2_f1) - vtot_f2) > EpsUnits

----------------------------------------------------------------------------
(* vectest2.cc: main *)

\* const size_t NUM_PREDS = 256, here 2 predictors
NUM_PREDS == 2

\* half of const size_t NUM_TREES = 500000: the forest holds NumPairs pairs
NumPairs == 1
NUM_TREES == 2 * NumPairs

\* const size_t TRIALS = 200, here 2 trials
TRIALS == 2

PredIDs == 0 .. (NUM_PREDS - 1)

\* d(g), a float of [-0.1, 0.1], in units of 2^-30
FeatVals == {-1, 0, 1}
SplitVals == {0}
MainLeaves == {<<1000, 50, 3000, 60>>}

\* the seven push_back calls of main's construction loop
Depth2Tree(va, vc, ve, sb, sd, sf, lv) ==
  << Node(1, 2, va, sb), Node(3, 4, vc, sd), Node(5, 6, ve, sf),
     Node(0, 0, 0, lv[1]), Node(0, 0, 0, lv[2]),
     Node(0, 0, 0, lv[3]), Node(0, 0, 0, lv[4]) >>

\* g() % NUM_PREDS for the nodes 1 and 2: the first and the last predictor,
\* in either order
ChildVarIDs == {<<0, NUM_PREDS - 1>>, <<NUM_PREDS - 1, 0>>}

Depth2Trees(leaves) ==
  {Depth2Tree(va, vv[1], vv[2], sb, sd, sf, lv) :
     va \in PredIDs, vv \in ChildVarIDs,
     sb \in SplitVals, sd \in SplitVals, sf \in SplitVals, lv \in leaves}

NoMask == [l \in Lanes8 |-> FALSE]

KernIdle  == i = 0 /\ total = 0 /\ mask = NoMask /\ rScalar = None /\ rSimd = None
TreeIdle  == nodeID = 0 /\ ncmp = 0 /\ path = <<>> /\ ret = 0
StumpIdle == /\ a = <<>> /\ b = <<>> /\ xs = <<>> /\ ys = <<>> /\ count = 0
             /\ rSlow = None /\ rF = None /\ rF2 = None

\* the state after the construction loop and the predictor loop of main
Init ==
  /\ pc = "repack"
  /\ forest \in [1 .. NUM_TREES -> Depth2Trees(MainLeaves)]
  /\ x \in [1 .. NUM_PREDS -> FeatVals]
  /\ forest2 = <<>>
  /\ t = 0 /\ trial = 0 /\ val = 0 /\ out = <<>>
  /\ KernIdle /\ TreeIdle /\ StumpIdle

\* one iteration of the repacking loop
Repack ==
  /\ pc = "repack"
  /\ t < NUM_TREES
  /\ \E r \in PackOutcomes(forest[t + 1]) :
       IF r.crashed
         THEN pc' = "crashed" /\ UNCHANGED <<forest2, t>>
         ELSE pc' = pc /\ forest2' = Append(forest2, r.tt) /\ t' = t + 1
  /\ UNCHANGED <<forest, x, trial, val, out, kernVars, treeVars, stumpVars>>

\* main with the first timer call placed before the sanity check
Banner_TimerFirst ==
  /\ pc = "repack"
  /\ t >= NUM_TREES
  /\ out' = Append(out, <<"Running", TRIALS, NUM_TREES>>)
  /\ i' = 0
  /\ pc' = "time_rf_eval"
  /\ UNCHANGED <<forest, forest2, x, t, trial, val, total, mask, rScalar, rSimd,
                 treeVars, stumpVars>>

\* std::cout << "Running " ..., then the call of compare_rfs
Banner ==
  /\ pc = "repack"
  /\ t >= NUM_TREES
  /\ out' = Append(out, <<"Running", TRIALS, NUM_TREES>>)
  /\ i' = 0
  /\ pc' = "compare_rfs"
  /\ UNCHANGED <<forest, forest2, x, t, trial, val, total, mask, rScalar, rSimd,
                 treeVars, stumpVars>>

\* one iteration of the loop of compare_rfs
CompareRfs ==
  /\ pc = "compare_rfs"
  /\ i < Len(forest) \div 2
  /\ LET v1_f1   == TreeEval(forest[i * 2 + 1], x)
         v2_f1   == TreeEval(forest[i * 2 + 2], x)
         vtot_f2 == TreeEvalSimd(forest2[i * 2 + 1], forest2[i * 2 + 2], x)
     IN IF Diverges(v1_f1, v2_f1, vtot_f2)
          THEN pc' = "aborted" /\ i' = i
          ELSE pc' = pc /\ i' = i + 1
  /\ UNCHANGED <<forest, forest2, x, mainVars, total, mask, rScalar, rSimd,
                 treeVars, stumpVars>>

\* compare_rfs returns; the first timer call starts
CompareRfsReturn ==
  /\ pc = "compare_rfs"
  /\ i >= Len(forest) \div 2
  /\ pc' = "time_rf_eval"
  /\ trial' = 0 /\ val' = 0
  /\ UNCHANGED <<forest, forest2, x, t, out, kernVars, treeVars, stumpVars>>

\* one trial of timer(rf_eval)
TimeRfEval ==
  /\ pc = "time_rf_eval"
  /\ trial < TRIALS
  /\ val' = RfEval(forest, x)
  /\ trial' = trial + 1
  /\ UNCHANGED <<pc, forest, forest2, x, t, out, kernVars, treeVars, stumpVars>>

\* the timer prints the rf_eval line; the second timer call starts
PrintRfEval ==
  /\ pc = "time_rf_eval"
  /\ trial >= TRIALS
  /\ out' = Append(out, <<"rf_eval", trial, val>>)
  /\ pc' = "time_rf_eval_simd"
  /\ trial' = 0 /\ val' = 0
  /\ UNCHANGED <<forest, forest2, x, t, kernVars, treeVars, stumpVars>>

\* a trial whose call writes 0 into x[0]
TimeRfEvalSimd_Impure ==
  /\ pc = "time_rf_eval_simd"
  /\ trial < TRIALS
  /\ val' = RfEvalSimd(forest2, x)
  /\ trial' = trial + 1
  /\ x' = [x EXCEPT ![1] = 0]
  /\ UNCHANGED <<pc, forest, forest2, t, out, kernVars, treeVars, stumpVars>>

\* one trial of timer(rf_eval_simd)
TimeRfEvalSimd ==
  /\ pc = "time_rf_eval_simd"
  /\ trial < TRIALS
  /\ val' = RfEvalSimd(forest2, x)
  /\ trial' = trial + 1
  /\ UNCHANGED <<pc, forest, forest2, x, t, out, kernVars, treeVars, stumpVars>>

\* the timer prints the rf_eval_simd line; main returns 0
PrintRfEvalSimd ==
  /\ pc = "time_rf_eval_simd"
  /\ trial >= TRIALS
  /\ out' = Append(out, <<"rf_eval_simd", trial, val>>)
  /\ pc' = "done"
  /\ UNCHANGED <<forest, forest2, x, t, trial, val, kernVars, treeVars, stumpVars>>

Next ==
  \/ Repack \/ Banner \/ CompareRfs \/ CompareRfsReturn
  \/ TimeRfEval \/ PrintRfEval \/ TimeRfEvalSimd \/ PrintRfEvalSimd

Spec == Init /\ [][Next]_vars

----------------------------------------------------------------------------
(* vectest2.cc: rf_eval, the repacking step and rf_eval_simd called on      *)
(* forests of any size and shape                                            *)

\* most trees of a forest handed to the functions
MaxTrees == 2

\* predictor values: the three orders against a split value of 0, and NaN
KernelFeatVals == FeatVals \cup {NaN}

\* 2^26 + 3 is no float: the float sum of the leaves 67108864 and 3 is rounded
KernelLeaves == MainLeaves \cup {<<67108864, 3, 5, 40>>}

\* a stump: a root and two terminal nodes
StumpTree(va, sb, l1, l2) ==
  << Node(1, 2, va, sb), Node(0, 0, 0, l1), Node(0, 0, 0, l2) >>

\* trees that do not have the seven nodes of main's layout
OtherTrees ==
  { StumpTree(0, 0, 10, 20),
    Depth2Tree(0, 1, 1, 0, 0, 0, <<1, 2, 3, 4>>) \o << Node(0, 0, 0, 9) >> }

KernelTrees == Depth2Trees(KernelLeaves) \cup OtherTrees

InitKernel ==
  /\ pc = "repack"
  /\ \E n \in 1 .. MaxTrees : forest \in [1 .. n -> KernelTrees]
  /\ x \in [1 .. NUM_PREDS -> KernelFeatVals]
  /\ forest2 = <<>>
  /\ t = 0 /\ trial = 0 /\ val = 0 /\ out = <<>>
  /\ KernIdle /\ TreeIdle /\ StumpIdle

\* the body of the repacking loop applied to tree t of the forest
PackTree ==
  /\ pc = "repack"
  /\ t < Len(forest)
  /\ \E r \in PackOutcomes(forest[t + 1]) :
       IF r.crashed
         THEN pc' = "crashed" /\ UNCHANGED <<forest2, t>>
         ELSE pc' = pc /\ forest2' = Append(forest2, r.tt) /\ t' = t + 1
  /\ UNCHANGED <<forest, x, trial, val, out, kernVars, treeVars, stumpVars>>

\* rf_eval(forest, x)
CallRfEval ==
  /\ pc = "repack"
  /\ t >= Len(forest)
  /\ rScalar' = RfEval(forest, x)
  /\ i' = 0 /\ total' = 0
  /\ pc' = "rf_eval_simd"
  /\ UNCHANGED <<forest, forest2, x, mainVars, mask, rSimd, treeVars, stumpVars>>

\* one iteration of the loop of rf_eval_simd(forest2, x)
RfEvalSimdIter ==
  /\ pc = "rf_eval_simd"
  /\ i < Len(forest2) \div 2
  /\ mask' = SimdMask(forest2[i * 2 + 1], forest2[i * 2 + 2], x)
  /\ total' = total + TreeEvalSimd(forest2[i * 2 + 1], forest2[i * 2 + 2], x)
  /\ i' = i + 1
  /\ UNCHANGED <<pc, forest, forest2, x, mainVars, rScalar, rSimd, treeVars, stumpVars>>

\* return total / f_.size()
RfEvalSimdReturn ==
  /\ pc = "rf_eval_simd"
  /\ i >= Len(forest2) \div 2
  /\ rSimd' = DDiv(total, Len(forest2))
  /\ pc' = "returned"
  /\ UNCHANGED <<forest, forest2, x, mainVars, i, total, mask, rScalar,
                 treeVars, stumpVars>>

NextKernel == PackTree \/ CallRfEval \/ RfEvalSimdIter \/ RfEvalSimdReturn

SpecKernel == InitKernel /\ [][NextKernel]_vars

----------------------------------------------------------------------------
(* Properties of the depth-2 program and functions *)

\* the fixed layout of main: 0 -> 1,2; 1 -> 3,4; 2 -> 5,6; 3..6 terminal
IsDepth2Shape(tr) ==
  /\ Len(tr) = 7
  /\ tr[1].leftChildNodeID = 1 /\ tr[1].rightChildNodeID = 2
  /\ tr[2].leftChildNodeID = 3 /\ tr[2].rightChildNodeID = 4
  /\ tr[3].leftChildNodeID = 5 /\ tr[3].rightChildNodeID = 6
  /\ \A k \in 4 .. 7 : IsTerminal(tr[k])

\* number of true lanes of m among the lanes ls
TrueLanes(m, ls) == Cardinality({l \in ls : m[l]})

NoNaN(x_) == \A k \in 1 .. Len(x_) : ~IsNaN(x_[k])

SimdActed == pc \in {"rf_eval_simd", "returned"} /\ i > 0

\* C1: for every forest of even size whose trees all have the fixed depth-2
\* shape and every feature vector, rf_eval_simd on the packed forest returns
\* the same average as rf_eval on the forest.  (Stated for the feature
\* vectors without NaN, where it already fails.)
C1_EquivalenceLaw ==
  (/\ pc = "returned"
   /\ Len(forest) % 2 = 0
   /\ \A k \in 1 .. Len(forest) : IsDepth2Shape(forest[k])
   /\ NoNaN(x))
  => rSimd = rScalar

\* C2: after tree_eval_simd has run on a pair of packed records, its
\* combined mask has exactly one true lane in each 4-lane half.  (Stated for
\* records packed from seven-node trees and feature vectors without NaN,
\* where it already fails.)
C2_MaskExclusive ==
  (/\ SimdActed
   /\ IsDepth2Shape(forest[2 * i - 1]) /\ IsDepth2Shape(forest[2 * i])
   /\ NoNaN(x))
  => (TrueLanes(mask, 4 .. 7) = 1 /\ TrueLanes(mask, 0 .. 3) = 1)

\* the part of the vector result that comes from one tree of the pair: the
\* sum of its four lanes of res2 (the upper half for t1_, the lower for t2_)
HalfSum(v, h) ==
  IF h = 1 THEN FAdd(FAdd(v[4], v[5]), FAdd(v[6], v[7]))
           ELSE FAdd(FAdd(v[0], v[1]), FAdd(v[2], v[3]))

\* a feature value of the tree equals the split value it is compared with
HasTie(tt, x_) ==
  \/ At(x_, tt.a_splitVarID) = tt.b_splitValue
  \/ At(x_, tt.c_splitVarID) = tt.d_splitValue
  \/ At(x_, tt.e_splitVarID) = tt.f_splitValue

\* C3: when a feature value equals the split value it is compared with (at
\* the root or at a second-level node), the vector result for that tree is
\* the single leaf the scalar path, which goes left on the tie, returns.
C3_TieGoesLeft ==
  (/\ SimdActed
   /\ IsDepth2Shape(forest[2 * i - 1]) /\ IsDepth2Shape(forest[2 * i])
   /\ NoNaN(x)) =>
    \A h \in {1, 2} :
      LET k == 2 * (i - 1) + h IN
        HasTie(forest2[k], x) =>
          HalfSum(Res2(forest2[2 * i - 1], forest2[2 * i], x), h) = TreeEval(forest[k], x)

\* C7: rf_eval_simd returns no value from a packed forest with an odd number
\* of trees.  (Stated for forests packed from trees of the depth-2 shape.)
C7_OddForestFatal ==
  (pc = "returned" /\ \A k \in 1 .. Len(forest) : IsDepth2Shape(forest[k]))
  => Len(forest2) % 2 = 0

\* C8: no packed record is made from a tree whose node count is not seven.
\* (Stated for the trees of more than seven nodes, which the repacking loop
\* reads without leaving the vector.)
C8_ShapeMismatchFatal == \A k \in 1 .. Len(forest2) : Len(forest[k]) <= 7

\* pair k of the forest differs by more than eps between the two paths
PairExceedsEps(k) ==
  LET scalarSum == TreeEval(forest[2 * k + 1], x) + TreeEval(forest[2 * k + 2], x)
      packedSum == TreeEvalSimd(forest2[2 * k + 1], forest2[2 * k + 2], x)
      d == scalarSum - packedSum
  IN d > EpsUnits \/ d < -EpsUnits

HasTimingLine == \E k \in 1 .. Len(out) : out[k][1] \in {"rf_eval", "rf_eval_simd"}

\* C6: compare_rfs aborts exactly when some pair i < size/2 differs by more
\* than the tolerance, returns normally when none does, and after an abort
\* no step of the program runs.
C6_DivergenceFatal ==
  /\ pc = "compare_rfs" => \A k \in 0 .. (i - 1) : ~PairExceedsEps(k)
  /\ pc = "aborted" =>
       /\ i < Len(forest) \div 2
       /\ PairExceedsEps(i)
       /\ \A k \in 0 .. (i - 1) : ~PairExceedsEps(k)
       /\ ~ENABLED Next
  /\ pc \in {"time_rf_eval", "time_rf_eval_simd", "done"} =>
       \A k \in 0 .. (Len(forest) \div 2 - 1) : ~PairExceedsEps(k)

C6_Witness == pc = "aborted" /\ PairExceedsEps(i)

\* C10: a timed call of rf_eval or rf_eval_simd, or a timing line, occurs
\* only after compare_rfs has gone through every pair and returned; once
\* the check has aborted there is no timed call and no timing line.
C10_CheckBeforeTiming ==
  /\ (trial > 0 \/ HasTimingLine \/ pc \in {"time_rf_eval", "time_rf_eval_simd", "done"})
       => (/\ pc # "aborted"
           /\ Len(forest2) = Len(forest)
           /\ i = Len(forest) \div 2)
  /\ pc = "aborted" =>
       /\ trial = 0 /\ ~HasTimingLine
       /\ ~ENABLED (TimeRfEval \/ PrintRfEval \/ TimeRfEvalSimd \/ PrintRfEvalSimd)

C10_Witness == pc = "done" /\ Len(out) = 3 /\ i = Len(forest) \div 2

----------------------------------------------------------------------------
(* vectest.cc: the stump kernels *)

\* the blend with its two sources exchanged
Blendv_Swapped(p, q, m) == IF m THEN p ELSE q

\* _mm256_blendv_ps(p, q, m) / _mm_blendv_ps: q where the mask is set, else p
Blendv(p, q, m) == IF m THEN q ELSE p

\* lane l of the j-th __m256 (w = 8) or __m128 (w = 4) read through the
\* pointer cast of a float array
VecLane(arr, w, j, l) == arr[w * j + l + 1]

\* lane l of __m256 tot / __m128 tot after k iterations of the loop of
\* selectf / selectf2
RECURSIVE TotLane(_, _, _, _, _, _, _)
TotLane(a_, b_, x_, y_, w, k, l) ==
  IF k = 0 THEN 0
  ELSE FAdd(TotLane(a_, b_, x_, y_, w, k - 1, l),
            Blendv(VecLane(x_, w, k - 1, l), VecLane(y_, w, k - 1, l),
                   CmpGtOQ(VecLane(a_, w, k - 1, l), VecLane(b_, w, k - 1, l))))

Tot(a_, b_, x_, y_, w, k) ==
  [l \in 0 .. (w - 1) |-> TotLane(a_, b_, x_, y_, w, k, l)]

\* float horizontal_add(__m128 &a): two _mm_hadd_ps, then lane 0
HorizontalAdd128(v) == FAdd(FAdd(v[0], v[1]), FAdd(v[2], v[3]))

\* float selectf(float *a, float *b, float *x, float *y, size_t count)
Selectf(a_, b_, x_, y_, count_) ==
  FDiv(HorizontalAdd(Tot(a_, b_, x_, y_, 8, count_ \div 8)), count_)

\* selectf2 returning the reduced total without the division by count
Selectf2_NoDiv(a_, b_, x_, y_, count_) ==
  FDiv(HorizontalAdd128(Tot(a_, b_, x_, y_, 4, count_ \div 4)), 1)

\* float selectf2(float *a, float *b, float *x, float *y, size_t count)
Selectf2(a_, b_, x_, y_, count_) ==
  FDiv(HorizontalAdd128(Tot(a_, b_, x_, y_, 4, count_ \div 4)), count_)

\* float total after k iterations of the loop of selectslow
RECURSIVE SlowTotal(_, _, _, _, _)
SlowTotal(a_, b_, x_, y_, k) ==
  IF k = 0 THEN 0
  ELSE FAdd(SlowTotal(a_, b_, x_, y_, k - 1),
            IF CLe(a_[k], b_[k]) THEN x_[k] ELSE y_[k])

\* float selectslow(float *a, float *b, float *x, float *y, size_t count)
Selectslow(a_, b_, x_, y_, count_) ==
  FDiv(SlowTotal(a_, b_, x_, y_, count_), count_)

\* largest count handed to the kernels
MaxCount == 8

\* the stumps the arrays are filled from, each <<a[i], b[i], x[i], y[i]>>:
\* a > b, a < b with a large x, a = b, and an unordered pair
StumpElems ==
  { <<2, 1, 5, -5>>, <<1, 2, 16777216, -5>>, <<1, 1, 0, 7>>, <<NaN, 1, 3, 7>> }

InitStump ==
  /\ pc = "selectslow"
  /\ count \in 1 .. MaxCount
  /\ \E e \in [1 .. count -> StumpElems] :
       /\ a  = [k \in 1 .. count |-> e[k][1]]
       /\ b  = [k \in 1 .. count |-> e[k][2]]
       /\ xs = [k \in 1 .. count |-> e[k][3]]
       /\ ys = [k \in 1 .. count |-> e[k][4]]
  /\ rSlow = None /\ rF = None /\ rF2 = None
  /\ forest = <<>> /\ forest2 = <<>> /\ x = <<>>
  /\ t = 0 /\ trial = 0 /\ val = 0 /\ out = <<>>
  /\ KernIdle /\ TreeIdle

\* timer(selectslow)
CallSelectslow ==
  /\ pc = "selectslow"
  /\ rSlow' = Selectslow(a, b, xs, ys, count)
  /\ pc' = "selectf"
  /\ UNCHANGED <<forest, forest2, x, mainVars, kernVars, treeVars,
                 a, b, xs, ys, count, rF, rF2>>

\* timer(selectf)
CallSelectf ==
  /\ pc = "selectf"
  /\ rF' = Selectf(a, b, xs, ys, count)
  /\ pc' = "selectf2"
  /\ UNCHANGED <<forest, forest2, x, mainVars, kernVars, treeVars,
                 a, b, xs, ys, count, rSlow, rF2>>

\* timer(selectf2)
CallSelectf2 ==
  /\ pc = "selectf2"
  /\ rF2' = Selectf2(a, b, xs, ys, count)
  /\ pc' = "stump_done"
  /\ UNCHANGED <<forest, forest2, x, mainVars, kernVars, treeVars,
                 a, b, xs, ys, count, rSlow, rF>>

NextStump == CallSelectslow \/ CallSelectf \/ CallSelectf2

SpecStump == InitStump /\ [][NextStump]_vars

----------------------------------------------------------------------------
(* vectest2.cc: tree_eval, one loop iteration at a time *)

\* most threshold comparisons followed in one call (a tree whose node points
\* back to node 0 never lets the loop end)
MaxCmp == 4

\* a single terminal node; a root whose left child index is 0
LeafOnlyTree == << Node(0, 0, 0, 42) >>
BackEdgeTree == << Node(0, 1, 0, 0), Node(0, 0, 0, 8) >>

EvalTrees ==
  Depth2Trees(KernelLeaves)
  \cup {StumpTree(va, 0, 10, 20) : va \in PredIDs}
  \cup {LeafOnlyTree, BackEdgeTree}

InitTree ==
  /\ pc = "tree_eval"
  /\ \E tr \in EvalTrees : forest = <<tr>>
  /\ x \in [1 .. NUM_PREDS -> KernelFeatVals]
  /\ nodeID = 0 /\ ncmp = 0 /\ path = <<0>> /\ ret = 0
  /\ forest2 = <<>>
  /\ t = 0 /\ trial = 0 /\ val = 0 /\ out = <<>>
  /\ KernIdle /\ StumpIdle

\* one iteration of while (1) at a node that is not terminal
TreeEvalStep ==
  /\ pc = "tree_eval"
  /\ ~IsTerminal(At(forest[1], nodeID))
  /\ ncmp < MaxCmp
  /\ nodeID' = Child(At(forest[1], nodeID), x)
  /\ ncmp' = ncmp + 1
  /\ path' = Append(path, nodeID')
  /\ UNCHANGED <<pc, forest, forest2, x, mainVars, kernVars, ret, stumpVars>>

\* break at a terminal node; return t_[nodeID].splitValue
TreeEvalReturn ==
  /\ pc = "tree_eval"
  /\ IsTerminal(At(forest[1], nodeID))
  /\ ret' = At(forest[1], nodeID).splitValue
  /\ pc' = "tree_done"
  /\ UNCHANGED <<forest, forest2, x, mainVars, kernVars, nodeID, ncmp, path, stumpVars>>

NextTree == TreeEvalStep \/ TreeEvalReturn

SpecTree == InitTree /\ [][NextTree]_vars

\* C9: tree_eval starts at node 0; from a node that is not terminal it moves
\* to leftChildNodeID when x[splitVarID] <= splitValue and to
\* rightChildNodeID otherwise; it stops exactly at a node whose child indices
\* are both 0 and returns that node's splitValue; a root with both children 0
\* is returned without any comparison.
C9_ScalarTraversal ==
  LET tr == forest[1] IN
  pc \in {"tree_eval", "tree_done"} =>
    /\ path[1] = 0
    /\ nodeID = path[Len(path)]
    /\ ncmp = Len(path) - 1
    /\ \A k \in 1 .. (Len(path) - 1) :
         LET n == tr[path[k] + 1]
             v == x[n.splitVarID + 1]
         IN /\ ~(n.leftChildNodeID = 0 /\ n.rightChildNodeID = 0)
            /\ path[k + 1] = IF v # NaN /\ v <= n.splitValue
                               THEN n.leftChildNodeID
                               ELSE n.rightChildNodeID
    /\ pc = "tree_done" =>
         /\ tr[nodeID + 1].leftChildNodeID = 0
         /\ tr[nodeID + 1].rightChildNodeID = 0
         /\ ret = tr[nodeID + 1].splitValue
    /\ (pc = "tree_eval" /\ ncmp < MaxCmp
          /\ tr[nodeID + 1].leftChildNodeID = 0 /\ tr[nodeID + 1].rightChildNodeID = 0)
         => ~ENABLED TreeEvalStep
    /\ (tr[1].leftChildNodeID = 0 /\ tr[1].rightChildNodeID = 0 /\ pc = "tree_done")
         => (ret = tr[1].splitValue /\ ncmp = 0)

\* a depth-2 tree evaluated with the root feature equal to the root threshold:
\* the walk took the left child, made two comparisons and returned a leaf
C9_Witness ==
  /\ pc = "tree_done"
  /\ Len(forest[1]) = 7
  /\ x[forest[1][1].splitVarID + 1] = forest[1][1].splitValue
  /\ path[2] = 1
  /\ ncmp = 2
  /\ ret = forest[1][nodeID + 1].splitValue

----------------------------------------------------------------------------
(* Properties of the stump kernels *)

StumpCalled == pc = "stump_done"

\* C4: for every count that is a multiple of the lane width, selectf (count a
\* multiple of 8) and selectf2 (count a multiple of 4) each return the value
\* selectslow returns on the same arrays.
C4_StumpEquivalence ==
  StumpCalled =>
    /\ count % 8 = 0 => rF = rSlow
    /\ count % 4 = 0 => rF2 = rSlow

\* the exact sum of select(a[i] <= b[i], x[i], y[i]) over the first n stumps
RECURSIVE SelectSum(_)
SelectSum(n) ==
  IF n = 0 THEN 0
  ELSE SelectSum(n - 1)
       + (IF a[n] # NaN /\ b[n] # NaN /\ a[n] <= b[n] THEN xs[n] ELSE ys[n])

\* C5: selectslow, selectf and selectf2 each add x[i] when a[i] <= b[i] and
\* y[i] otherwise, and return that total divided by count.  (Stated for the
\* arrays whose total needs no rounding: it is below 2^24 in magnitude and so
\* are all partial sums; and for counts the kernel covers completely.)
C5_SelectDirection ==
  (StumpCalled /\ \A k \in 1 .. count : Abs(xs[k]) < TwoP24 /\ Abs(ys[k]) < TwoP24) =>
    /\ rSlow = FDiv(SelectSum(count), count)
    /\ count % 8 = 0 => rF = FDiv(SelectSum(count), count)
    /\ count % 4 = 0 => rF2 = FDiv(SelectSum(count), count)

----------------------------------------------------------------------------
(* Purity of the evaluation calls *)

\* positions at which the next step is an evaluation call or part of one
EvalPcs ==
  {"compare_rfs", "time_rf_eval", "time_rf_eval_simd", "rf_eval_simd",
   "tree_eval", "selectslow", "selectf", "selectf2"}

----------------------------------------------------------------------------
(* Further properties of the packed kernel *)

\* C12: tree_eval_simd(t1, t2, x) equals tree_eval_simd(t2, t1, x) for the
\* pair of packed records and the feature vector of every call: the value an
\* iteration of rf_eval_simd adds to total is the value of the swapped call,
\* and the mask of the call is the mask of the swapped call with its two
\* 4-lane halves exchanged.
C12_SwapInvariance ==
  [][ (pc = "rf_eval_simd" /\ i' = i + 1) =>
        LET t1 == forest2[2 * i + 1]
            t2 == forest2[2 * i + 2]
        IN /\ total' - total = TreeEvalSimd(t2, t1, x)
           /\ \A l \in Lanes8 : mask'[l] = SimdMask(t2, t1, x)[(l + 4) % 8] ]_vars

\* a call on two different records whose halves carry different sums
C12_Witness ==
  /\ SimdActed
  /\ forest2[2 * i - 1] # forest2[2 * i]
  /\ HalfSum(Res2(forest2[2 * i - 1], forest2[2 * i], x), 1)
       # HalfSum(Res2(forest2[2 * i - 1], forest2[2 * i], x), 2)
  /\ total = TreeEvalSimd(forest2[2 * i], forest2[2 * i - 1], x)
  /\ total # 0

----------------------------------------------------------------------------
(* The worked example of a single stump *)

\* the stump a = 0.2, b = 0.1, x = 5.0, y = -5.0; a and b are only compared,
\* so 2 and 1 stand for them
ExampleStump == <<2, 1, 5, -5>>

\* the arrays hold the example stump in one lane; every other lane is ordered
\* with a <= b and x = 0, so that it adds nothing in any kernel
IsExampleInput ==
  /\ count \in {4, 8}
  /\ \E k \in 1 .. count :
       /\ <<a[k], b[k], xs[k], ys[k]>> = ExampleStump
       /\ \A j \in (1 .. count) \ {k} :
            a[j] # NaN /\ b[j] # NaN /\ a[j] <= b[j] /\ xs[j] = 0

\* C13 (as the code has it): on the example stump padded to the lane width
\* the kernels select y = -5.0, because 0.2 <= 0.1 is false, and divide by
\* count: selectslow and selectf return -5/8 = -0.625 for count 8 (selectf2
\* too), selectslow and selectf2 return -5/4 = -1.25 for count 4.
C13_WorkedExampleAmended ==
  (StumpCalled /\ IsExampleInput) =>
    /\ count = 8 => (rSlow = <<-5, -3>> /\ rF = <<-5, -3>> /\ rF2 = <<-5, -3>>)
    /\ count = 4 => (rSlow = <<-5, -2>> /\ rF2 = <<-5, -2>>)

\* C13: the stump a = 0.2, b = 0.1, x = 5.0, y = -5.0 in one lane, padded to
\* the lane width with lanes whose contributions cancel, evaluates to 5.0
\* under selectslow, selectf and selectf2.
C13_WorkedExample ==
  (StumpCalled /\ IsExampleInput) =>
    /\ rSlow = <<5, 0>>
    /\ count = 8 => rF = <<5, 0>>
    /\ rF2 = <<5, 0>>

\* the three kernels have run on the example padded to eight lanes
C13_Witness ==
  /\ StumpCalled /\ IsExampleInput /\ count = 8
  /\ rSlow = <<-5, -3>> /\ rF = rSlow /\ rF2 = rSlow

----------------------------------------------------------------------------
(* A pair of depth-2 trees without ties *)

\* one of the three feature values the kernel compares for the tree is NaN
HasNaN(tt, x_) ==
  \/ IsNaN(At(x_, tt.a_splitVarID))
  \/ IsNaN(At(x_, tt.c_splitVarID))
  \/ IsNaN(At(x_, tt.e_splitVarID))

\* the call of tree_eval_simd made by this step is on pair i of a forest of
\* depth-2 trees packed by the repacking loop
PairCall ==
  /\ pc = "rf_eval_simd" /\ i' = i + 1
  /\ IsDepth2Shape(forest[2 * i + 1]) /\ IsDepth2Shape(forest[2 * i + 2])

\* the mask has one true lane in the half h and it carries the leaf v
OneLaneCarries(m, r1, h, v) ==
  LET ls == IF h = 1 THEN 4 .. 7 ELSE 0 .. 3 IN
    /\ TrueLanes(m, ls) = 1
    /\ \A l \in ls : m[l] => r1[l] = v

----------------------------------------------------------------------------
(* Termination of the scalar traversal *)

\* the loop of tree_eval keeps running while it can: the call is not
\* interrupted
SpecTreeFair == SpecTree /\ WF_vars(NextTree)

\* a root and two terminal nodes
IsStumpShape(tr) ==
  /\ Len(tr) = 3
  /\ tr[1].leftChildNodeID = 1 /\ tr[1].rightChildNodeID = 2
  /\ IsTerminal(tr[2]) /\ IsTerminal(tr[3])

\* number of internal levels of the two shapes
Levels(tr) == IF IsDepth2Shape(tr) THEN 2 ELSE 1

HasShape == IsDepth2Shape(forest[1]) \/ IsStumpShape(forest[1])

\* C15: for every tree of the depth-2 shape or the stump shape and every
\* feature vector, tree_eval eventually returns; it never makes more
\* comparisons than the tree has internal levels, it has made exactly that
\* many when it returns (two for depth 2, one for a stump), and it never
\* visits a node twice.
C15_Terminates ==
  /\ [](HasShape =>
          /\ ncmp <= Levels(forest[1])
          /\ \A j, k \in 1 .. Len(path) : j # k => path[j] # path[k]
          /\ pc = "tree_done" =>
               (ncmp = Levels(forest[1]) /\ ret = forest[1][nodeID + 1].splitValue))
  /\ (HasShape /\ pc = "tree_eval") ~> (pc = "tree_done")

\* a stump evaluated with one comparison, ending in its right leaf
C15_Witness ==
  /\ pc = "tree_done"
  /\ IsStumpShape(forest[1])
  /\ ncmp = 1
  /\ path = <<0, 2>>
  /\ ret = forest[1][3].splitValue

----------------------------------------------------------------------------
(* NaN at the root of a packed tree *)

\* the lanes of the half h: the high half belongs to t1_, the low to t2_
HalfLanes(h) == IF h = 1 THEN 4 .. 7 ELSE 0 .. 3

----------------------------------------------------------------------------
(* Counts that are not a multiple of the lane width *)

\* the exact sum over the first n stumps of what the mask a > b and the blend
\* select: y[i] where a[i] > b[i], x[i] elsewhere (also where unordered)
RECURSIVE KernelSum(_)
KernelSum(n) ==
  IF n = 0 THEN 0
  ELSE KernelSum(n - 1)
       + (IF a[n] # NaN /\ b[n] # NaN /\ a[n] > b[n] THEN ys[n] ELSE xs[n])

\* every x[i] and y[i] is below 2^24 in magnitude: no sum formed is rounded
ExactInput == \A k \in 1 .. count : Abs(xs[k]) < TwoP24 /\ Abs(ys[k]) < TwoP24

\* selectf accumulates the first 8 * floor(count / 8) elements, selectf2 the
\* first 4 * floor(count / 4); both divide by the full count
TailIgnored ==
  (StumpCalled /\ ExactInput) =>
    /\ rF  = FDiv(KernelSum(8 * (count \div 8)), count)
    /\ rF2 = FDiv(KernelSum(4 * (count \div 4)), count)

====
